---- MODULE Spec2Model ----
(***************************************************************************)
(* A model of streamlit_app.py: the run orchestrator with its retry loop   *)
(* (run_scraper_main), link discovery (get_story_links) and the record     *)
(* assembler (scrape_story_details).  Each of the three is a specification *)
(* of its own over the variables below; the variables of the other two     *)
(* stay at their idle values.                                              *)
(***************************************************************************)
EXTENDS Integers, Sequences, FiniteSets, TLC

\* ------------------------------------------------------------------ bounds
MaxUrls == 5          \* discovered item URLs per run
MaxRetriesCfg == 2    \* largest configured max_retries
MaxSessions == 2      \* browser sessions one run may create

DefaultMaxRetries == 3   \* config.get('max_retries', 3)

\* ------------------------------------------------------------------ state
VARIABLES
  \* run_scraper_main
  pc,                    \* position of the worker in run_scraper_main
  config,                \* the parsed configuration: a function from the keys present
  driver,                \* id of the session `driver` is bound to, 0 for None
  wait,                  \* id of the session the `wait` object was built on, 0 if none
  sessions,              \* number of sessions created so far (webdriver.Chrome calls that returned)
  live,                  \* sessions whose browser is still running
  quitAttempted,         \* sessions on which driver.quit() was called
  story_urls,            \* result of get_story_links
  urls_to_scrape,        \* the work list
  failed_urls_this_pass,
  idx,                   \* 1-based position of the for loop in urls_to_scrape
  attempt,               \* the loop variable of range(max_retries)
  all_stories_data,      \* accumulated records
  finishCalls,           \* history: the calls of finish_callback, in order
  scrapeLog,             \* history: the calls of scrape_story_details, in order
  passes,                \* history: number of passes started
  pauses,                \* history: number of time.sleep(5) pauses taken
  reported,              \* history: the lists logged as still failing (line 310)
  raised,                \* history: an exception reached a handler of run_scraper_main
  restart,               \* history: the loop state when the session was last replaced,
                         \* kept until the scrape call that follows
  \* get_story_links
  dom,                   \* the hrefs of the item-link elements now in the container
  links,                 \* the accumulated set of URLs
  current_page,
  pagination_active,
  last_first_href,
  returned,              \* the list get_story_links returned
  clicks,                \* history: pagination clicks performed
  enumerations,          \* history: times the container was enumerated (line 113)
  loaded,                \* history: acceptable URLs shown after a successful load-more
  stall,                 \* history: the first click that left the first href unchanged
  pagesSeen,             \* history: the container contents enumerated, in order
  stepFailed,            \* history: how a pagination step failed ("" if none did)
  \* scrape_story_details
  story_data,            \* the record being assembled: field name -> value
  confidence_points,
  title_element,         \* whether title_element is set
  fieldsDone,            \* fields of data_selectors processed so far
  field,                 \* the field of data_selectors being processed ("" if none)
  selectors,             \* its rule list
  field_value,
  highest_confidence,
  ruleStop,              \* history: index of the rule the rule loop ended at
  failure,               \* history: what went wrong for this URL so far ("" if nothing)
  confidence_score,
  needs_verification,
  \* the progress log shared by the worker threads and the script (lines 456-510)
  log_buffer,            \* st.session_state.log_buffer, as the sequence of its messages
  is_running,            \* st.session_state.is_running
  button_enabled,        \* whether the start button was rendered enabled (line 425)
  runs,                  \* number of runs started so far
  wpc,                   \* per run: position of its worker thread
  wtmp,                  \* per run: the buffer value its worker read at line 458
  wsent,                 \* per run: log_callback calls that have returned
  \* clean_text applied twice
  text,                  \* the input
  cleaned,               \* clean_text(text)
  recleaned,             \* clean_text(clean_text(text))
  \* column selection of the output sheet (lines 317-324)
  config_before,         \* history: the configuration as it was passed in
  df_columns,            \* the columns of the frame built from the records
  sheet_columns          \* the columns of the frame written to the sheet

runVars == <<driver, wait, sessions, live, quitAttempted, story_urls,
             urls_to_scrape, failed_urls_this_pass, idx, attempt, all_stories_data,
             finishCalls, scrapeLog, passes, pauses, reported, raised, restart>>

linkVars == <<dom, links, current_page, pagination_active, last_first_href,
              returned, clicks, enumerations, loaded, stall, pagesSeen, stepFailed>>

detailVars == <<story_data, confidence_points, title_element, fieldsDone, field,
                selectors, field_value, highest_confidence, ruleStop, failure,
                confidence_score, needs_verification>>

uiVars == <<log_buffer, is_running, button_enabled, runs, wpc, wtmp, wsent>>

cleanVars == <<text, cleaned, recleaned>>

saveVars == <<config_before, df_columns, sheet_columns>>

otherVars == <<uiVars, cleanVars, saveVars>>

\* What run_scraper_main's own steps leave alone.
notRun == <<linkVars, detailVars, otherVars>>

vars == <<pc, config, runVars, linkVars, detailVars, otherVars>>

\* ------------------------------------------------------------------ helpers
\* dict.get(key, default)
CfgGet(c, k, d) == IF k \in DOMAIN c THEN c[k] ELSE d

Range(s) == {s[i] : i \in 1..Len(s)}

SeqUpTo(n) == [i \in 1..n |-> i]

\* The configurations a run is started with.  max_retries is an integer >= 1 or
\* absent; main_wait_timeout is the JSON literal configured, or absent.
RetryConfigs == {<<>>} \cup {[max_retries |-> m] : m \in 1..MaxRetriesCfg}

TimeoutConfigs == {<<>>, [main_wait_timeout |-> "null"]}

Merge(f, g) == [k \in DOMAIN f \cup DOMAIN g |-> IF k \in DOMAIN f THEN f[k] ELSE g[k]]

RunConfigs == {Merge(r, t) : r \in RetryConfigs, t \in TimeoutConfigs}

\* WebDriverWait(driver, timeout) converts the timeout with float(): a null raises.
WaitTimeoutUsable(c) == CfgGet(c, "main_wait_timeout", "180") # "null"

max_retries == CfgGet(config, "max_retries", DefaultMaxRetries)

\* finish_callback(success, message, data_buffer=None, filename=None)
FinishCallback(success, payload) ==
  finishCalls' = Append(finishCalls, [success |-> success, payload |-> payload])

\* A record assembled for a URL (scrape_story_details always sets 'url').
RecordOf(u) == [url |-> u]

RecordUrls == {all_stories_data[i].url : i \in 1..Len(all_stories_data)}

\* ------------------------------------------------------------------ idle values
NoRestart == [seen |-> FALSE, old |-> 0, idx |-> 0, attempt |-> 0, work |-> <<>>,
              records |-> <<>>, failed |-> <<>>]

\* The locals of run_scraper_main before line 237 has run.
RunIdle ==
  /\ driver = 0
  /\ wait = 0
  /\ sessions = 0
  /\ live = {}
  /\ quitAttempted = {}
  /\ story_urls = <<>>
  /\ urls_to_scrape = <<>>
  /\ failed_urls_this_pass = <<>>
  /\ idx = 0
  /\ attempt = 0
  /\ all_stories_data = <<>>
  /\ finishCalls = <<>>
  /\ scrapeLog = <<>>
  /\ passes = 0
  /\ pauses = 0
  /\ reported = <<>>
  /\ raised = FALSE
  /\ restart = NoRestart

NoStall == [seen |-> FALSE, clicks |-> 0, enumerations |-> 0, links |-> {}]

\* The locals of get_story_links before line 84 has run.
LinkIdle ==
  /\ dom = <<>>
  /\ links = {}
  /\ current_page = 0
  /\ pagination_active = FALSE
  /\ last_first_href = ""
  /\ returned = <<>>
  /\ clicks = 0
  /\ enumerations = 0
  /\ loaded = {}
  /\ stall = NoStall
  /\ pagesSeen = <<>>
  /\ stepFailed = ""

\* Python's None and a string, as one kind of value.
None == [some |-> FALSE, text |-> <<>>]

Some(t) == [some |-> TRUE, text |-> t]

\* No field of data_selectors is being processed.
NoField ==
  /\ field = ""
  /\ selectors = <<>>
  /\ field_value = None
  /\ highest_confidence = 0
  /\ ruleStop = 0

\* The locals of scrape_story_details before line 167 has run.
DetailIdle ==
  /\ story_data = <<>>
  /\ confidence_points = 0
  /\ title_element = FALSE
  /\ fieldsDone = 0
  /\ NoField
  /\ failure = ""
  /\ confidence_score = ""
  /\ needs_verification = ""

\* Nothing has been logged and no run started (lines 414-421).
UiIdle ==
  /\ log_buffer = <<>>
  /\ is_running = FALSE
  /\ button_enabled = FALSE
  /\ runs = 0
  /\ wpc = <<>>
  /\ wtmp = <<>>
  /\ wsent = <<>>

CleanIdle ==
  /\ text = None
  /\ cleaned = None
  /\ recleaned = None

SaveIdle ==
  /\ config_before = <<>>
  /\ df_columns = <<>>
  /\ sheet_columns = <<>>

OtherIdle == UiIdle /\ CleanIdle /\ SaveIdle

\* ------------------------------------------------------------------ run_scraper_main
RunInit ==
  /\ pc = "setup_driver"
  /\ config \in RunConfigs
  /\ RunIdle
  /\ LinkIdle
  /\ DetailIdle
  /\ OtherIdle

\* SetupDriver that goes on to discovery when webdriver.Chrome raised.
SetupDriverContinue ==
  /\ pc = "setup_driver"
  /\ UNCHANGED <<notRun, restart>>
  /\ \E ok \in BOOLEAN :
       IF ok
       THEN /\ sessions' = sessions + 1
            /\ driver' = sessions + 1
            /\ live' = live \cup {sessions + 1}
            /\ pc' = "setup_wait"
            /\ UNCHANGED <<finishCalls, raised>>
       ELSE /\ raised' = TRUE
            /\ pc' = "discover"
            /\ UNCHANGED <<sessions, driver, live, finishCalls>>
  /\ UNCHANGED <<config, wait, quitAttempted, story_urls, urls_to_scrape,
                 failed_urls_this_pass, idx, attempt, all_stories_data, scrapeLog,
                 passes, pauses, reported>>

\* Lines 237-266: build the options and create the session.  webdriver.Chrome
\* either returns a session or raises; a raise is handled at lines 271-275.
SetupDriver ==
  /\ pc = "setup_driver"
  /\ UNCHANGED <<notRun, restart>>
  /\ \E ok \in BOOLEAN :
       IF ok
       THEN /\ sessions' = sessions + 1
            /\ driver' = sessions + 1
            /\ live' = live \cup {sessions + 1}
            /\ pc' = "setup_wait"
            /\ UNCHANGED <<finishCalls, raised>>
       ELSE /\ FinishCallback(FALSE, FALSE)
            /\ raised' = TRUE
            /\ pc' = "done"
            /\ UNCHANGED <<sessions, driver, live>>
  /\ UNCHANGED <<config, wait, quitAttempted, story_urls, urls_to_scrape,
                 failed_urls_this_pass, idx, attempt, all_stories_data, scrapeLog,
                 passes, pauses, reported>>

\* Lines 268-269, still inside the try of line 238: the wait object is built
\* from the configured timeout.  A raise here is handled at lines 271-275 too:
\* finish_callback(False, ...) and return, with no driver.quit().
SetupWait ==
  /\ pc = "setup_wait"
  /\ UNCHANGED <<notRun, restart>>
  /\ IF WaitTimeoutUsable(config)
     THEN /\ wait' = driver
          /\ pc' = "discover"
          /\ UNCHANGED <<finishCalls, raised>>
     ELSE /\ FinishCallback(FALSE, FALSE)
          /\ raised' = TRUE
          /\ pc' = "done"
          /\ UNCHANGED wait
  /\ UNCHANGED <<config, driver, sessions, live, quitAttempted, story_urls,
                 urls_to_scrape, failed_urls_this_pass, idx, attempt,
                 all_stories_data, scrapeLog, passes, pauses, reported>>

\* Lines 280-287 and 332: get_story_links returns a list of distinct URLs
\* (list(links) of a set) or raises (driver.get at line 87 is outside any try).
Discover ==
  /\ pc = "discover"
  /\ UNCHANGED <<notRun, restart>>
  /\ \/ \E n \in 0..MaxUrls :
          /\ story_urls' = SeqUpTo(n)
          /\ UNCHANGED raised
          /\ IF n > 0
             THEN /\ urls_to_scrape' = SeqUpTo(n)
                  /\ attempt' = 0
                  /\ pc' = "pass_head"
                  /\ UNCHANGED finishCalls
             ELSE /\ FinishCallback(FALSE, FALSE)
                  /\ pc' = "finally"
                  /\ UNCHANGED <<urls_to_scrape, attempt>>
     \/ /\ pc' = "except"
        /\ raised' = TRUE
        /\ UNCHANGED <<story_urls, urls_to_scrape, attempt, finishCalls>>
  /\ UNCHANGED <<config, driver, wait, sessions, live, quitAttempted,
                 failed_urls_this_pass, idx, all_stories_data, scrapeLog, passes,
                 pauses, reported>>

\* PassHead without the early break of line 290: a pass over an empty work list
\* is begun (its for loop of line 294 has no iteration).
PassHeadNoBreak ==
  /\ pc = "pass_head"
  /\ UNCHANGED <<notRun, restart>>
  /\ IF attempt >= max_retries
     THEN /\ pc' = "after_loop"
          /\ UNCHANGED <<failed_urls_this_pass, idx, passes>>
     ELSE /\ failed_urls_this_pass' = <<>>
          /\ idx' = 1
          /\ passes' = passes + 1
          /\ pc' = IF urls_to_scrape = <<>> THEN "end_pass" ELSE "check_session"
  /\ UNCHANGED <<config, driver, wait, sessions, live, quitAttempted, story_urls,
                 urls_to_scrape, attempt, all_stories_data, finishCalls, scrapeLog,
                 pauses, reported, raised>>

\* PassHead with the loop bound off by one (range(max_retries + 1)).
PassHeadOneMore ==
  /\ pc = "pass_head"
  /\ UNCHANGED <<notRun, restart>>
  /\ IF attempt > max_retries \/ urls_to_scrape = <<>>
     THEN /\ pc' = "after_loop"
          /\ UNCHANGED <<failed_urls_this_pass, idx, passes>>
     ELSE /\ failed_urls_this_pass' = <<>>
          /\ idx' = 1
          /\ passes' = passes + 1
          /\ pc' = "check_session"
  /\ UNCHANGED <<config, driver, wait, sessions, live, quitAttempted, story_urls,
                 urls_to_scrape, attempt, all_stories_data, finishCalls, scrapeLog,
                 pauses, reported, raised>>

\* Lines 289-293: the head of `for attempt in range(max_retries)`, with the
\* early break on an empty work list.
PassHead ==
  /\ pc = "pass_head"
  /\ UNCHANGED <<notRun, restart>>
  /\ IF attempt >= max_retries \/ urls_to_scrape = <<>>
     THEN /\ pc' = "after_loop"
          /\ UNCHANGED <<failed_urls_this_pass, idx, passes>>
     ELSE /\ failed_urls_this_pass' = <<>>
          /\ idx' = 1
          /\ passes' = passes + 1
          /\ pc' = "check_session"
  /\ UNCHANGED <<config, driver, wait, sessions, live, quitAttempted, story_urls,
                 urls_to_scrape, attempt, all_stories_data, finishCalls, scrapeLog,
                 pauses, reported, raised>>

\* CheckSession that replaces the session but goes on to the next URL and
\* keeps the wait object of the lost session.
CheckSessionSkip ==
  /\ pc = "check_session"
  /\ UNCHANGED notRun
  /\ \/ /\ pc' = "scrape"
        /\ UNCHANGED <<driver, wait, sessions, live, quitAttempted, raised, restart, idx>>
     \/ /\ quitAttempted' = quitAttempted \cup {driver}
        /\ sessions < MaxSessions
        /\ sessions' = sessions + 1
        /\ driver' = sessions + 1
        /\ live' = (live \ {driver}) \cup {sessions + 1}
        /\ restart' = [seen |-> TRUE, old |-> driver, idx |-> idx,
                       attempt |-> attempt, work |-> urls_to_scrape,
                       records |-> all_stories_data,
                       failed |-> failed_urls_this_pass]
        /\ idx' = IF idx < Len(urls_to_scrape) THEN idx + 1 ELSE idx
        /\ pc' = "scrape"
        /\ UNCHANGED <<raised, wait>>
  /\ UNCHANGED <<config, story_urls, urls_to_scrape, failed_urls_this_pass,
                 attempt, all_stories_data, finishCalls, scrapeLog, passes, pauses,
                 reported>>

\* CheckSession that creates the replacement without quitting the old session.
CheckSessionNoQuit ==
  /\ pc = "check_session"
  /\ UNCHANGED notRun
  /\ \/ /\ pc' = "scrape"
        /\ UNCHANGED <<driver, wait, sessions, live, quitAttempted, raised, restart>>
     \/ /\ sessions < MaxSessions
        /\ sessions' = sessions + 1
        /\ driver' = sessions + 1
        /\ wait' = sessions + 1
        /\ live' = live \cup {sessions + 1}
        /\ restart' = [seen |-> TRUE, old |-> driver, idx |-> idx,
                       attempt |-> attempt, work |-> urls_to_scrape,
                       records |-> all_stories_data,
                       failed |-> failed_urls_this_pass]
        /\ pc' = "scrape"
        /\ UNCHANGED <<raised, quitAttempted>>
  /\ UNCHANGED <<config, story_urls, urls_to_scrape, failed_urls_this_pass, idx,
                 attempt, all_stories_data, finishCalls, scrapeLog, passes, pauses,
                 reported>>

\* Lines 294-303: driver.window_handles probes the session.  On
\* WebDriverException the old session is quit (errors swallowed) and a new one
\* is created; a raise of webdriver.Chrome leaves `driver` as it was and
\* reaches the handler of line 333.  Whether the probe raises is the
\* environment's choice (the browser may have died at any time).
CheckSession ==
  /\ pc = "check_session"
  /\ UNCHANGED notRun
  /\ \/ /\ pc' = "scrape"
        /\ UNCHANGED <<driver, wait, sessions, live, quitAttempted, raised, restart>>
     \/ /\ quitAttempted' = quitAttempted \cup {driver}
        /\ \/ /\ sessions < MaxSessions
              /\ sessions' = sessions + 1
              /\ driver' = sessions + 1
              /\ wait' = sessions + 1
              /\ live' = (live \ {driver}) \cup {sessions + 1}
              /\ restart' = [seen |-> TRUE, old |-> driver, idx |-> idx,
                             attempt |-> attempt, work |-> urls_to_scrape,
                             records |-> all_stories_data,
                             failed |-> failed_urls_this_pass]
              /\ pc' = "scrape"
              /\ UNCHANGED raised
           \/ /\ live' = live \ {driver}
              /\ pc' = "except"
              /\ raised' = TRUE
              /\ UNCHANGED <<driver, wait, sessions, restart>>
  /\ UNCHANGED <<config, story_urls, urls_to_scrape, failed_urls_this_pass, idx,
                 attempt, all_stories_data, finishCalls, scrapeLog, passes, pauses,
                 reported>>

\* Lines 305-307 and the step of the for loop of line 294:
\* scrape_story_details returns a record, returns None, or raises (its
\* set_page_load_timeout at line 170 and page_source at line 179 are outside
\* any try).
Scrape ==
  /\ pc = "scrape"
  /\ UNCHANGED notRun
  /\ restart' = NoRestart
  /\ LET url == urls_to_scrape[idx] IN
     \E result \in {"record", "none", "raise"} :
       /\ scrapeLog' = Append(scrapeLog,
            [pass |-> attempt + 1, url |-> url, result |-> result])
       /\ CASE result = "record" ->
                 /\ all_stories_data' = Append(all_stories_data, RecordOf(url))
                 /\ UNCHANGED failed_urls_this_pass
            [] result = "none" ->
                 /\ failed_urls_this_pass' = Append(failed_urls_this_pass, url)
                 /\ UNCHANGED all_stories_data
            [] OTHER -> UNCHANGED <<all_stories_data, failed_urls_this_pass>>
       /\ IF result = "raise"
          THEN pc' = "except" /\ raised' = TRUE /\ UNCHANGED idx
          ELSE /\ idx' = idx + 1
               /\ UNCHANGED raised
               /\ pc' = IF idx < Len(urls_to_scrape) THEN "check_session" ELSE "end_pass"
  /\ UNCHANGED <<config, driver, wait, sessions, live, quitAttempted, story_urls,
                 urls_to_scrape, attempt, finishCalls, passes, pauses, reported>>

\* EndPass that keeps the whole work list for the next pass.
EndPassKeepAll ==
  /\ pc = "end_pass"
  /\ UNCHANGED <<notRun, restart>>
  /\ pauses' = IF failed_urls_this_pass # <<>> THEN pauses + 1 ELSE pauses
  /\ attempt' = attempt + 1
  /\ pc' = "pass_head"
  /\ UNCHANGED <<config, driver, wait, sessions, live, quitAttempted, story_urls,
                 urls_to_scrape, failed_urls_this_pass, idx, all_stories_data,
                 finishCalls, scrapeLog, passes, reported, raised>>

\* EndPass that empties the work list.
EndPassDropAll ==
  /\ pc = "end_pass"
  /\ UNCHANGED <<notRun, restart>>
  /\ urls_to_scrape' = <<>>
  /\ pauses' = IF failed_urls_this_pass # <<>> THEN pauses + 1 ELSE pauses
  /\ attempt' = attempt + 1
  /\ pc' = "pass_head"
  /\ UNCHANGED <<config, driver, wait, sessions, live, quitAttempted, story_urls,
                 failed_urls_this_pass, idx, all_stories_data, finishCalls,
                 scrapeLog, passes, reported, raised>>

\* Lines 308-309: the work list becomes the failed list; pause if non-empty.
EndPass ==
  /\ pc = "end_pass"
  /\ UNCHANGED <<notRun, restart>>
  /\ urls_to_scrape' = failed_urls_this_pass
  /\ pauses' = IF failed_urls_this_pass # <<>> THEN pauses + 1 ELSE pauses
  /\ attempt' = attempt + 1
  /\ pc' = "pass_head"
  /\ UNCHANGED <<config, driver, wait, sessions, live, quitAttempted, story_urls,
                 failed_urls_this_pass, idx, all_stories_data, finishCalls,
                 scrapeLog, passes, reported, raised>>

\* AfterLoop that reports failure whenever a URL is still failing.
AfterLoopStrict ==
  /\ pc = "after_loop"
  /\ UNCHANGED <<notRun, restart>>
  /\ reported' = IF urls_to_scrape # <<>> THEN Append(reported, urls_to_scrape)
                                          ELSE reported
  /\ IF all_stories_data # <<>> /\ urls_to_scrape = <<>>
     THEN pc' = "serialize" /\ UNCHANGED finishCalls
     ELSE FinishCallback(FALSE, FALSE) /\ pc' = "finally"
  /\ UNCHANGED <<config, driver, wait, sessions, live, quitAttempted, story_urls,
                 urls_to_scrape, failed_urls_this_pass, idx, attempt,
                 all_stories_data, scrapeLog, passes, pauses, raised>>

\* Lines 310-315 and 331: report the URLs still failing, then either go on to
\* serialization or report "no data".
AfterLoop ==
  /\ pc = "after_loop"
  /\ UNCHANGED <<notRun, restart>>
  /\ reported' = IF urls_to_scrape # <<>> THEN Append(reported, urls_to_scrape)
                                          ELSE reported
  /\ IF all_stories_data # <<>>
     THEN pc' = "serialize" /\ UNCHANGED finishCalls
     ELSE FinishCallback(FALSE, FALSE) /\ pc' = "finally"
  /\ UNCHANGED <<config, driver, wait, sessions, live, quitAttempted, story_urls,
                 urls_to_scrape, failed_urls_this_pass, idx, attempt,
                 all_stories_data, scrapeLog, passes, pauses, raised>>

\* Lines 316-330: sort, select the columns, write the sheet, report success.
\* Any raise before line 330 reaches the handler of line 333.
Serialize ==
  /\ pc = "serialize"
  /\ UNCHANGED <<notRun, restart>>
  /\ \/ FinishCallback(TRUE, TRUE) /\ pc' = "finally" /\ UNCHANGED raised
     \/ pc' = "except" /\ raised' = TRUE /\ UNCHANGED finishCalls
  /\ UNCHANGED <<config, driver, wait, sessions, live, quitAttempted, story_urls,
                 urls_to_scrape, failed_urls_this_pass, idx, attempt,
                 all_stories_data, scrapeLog, passes, pauses, reported>>

\* ExceptHandler that logs the error but reports no completion.
ExceptHandlerSilent ==
  /\ pc = "except"
  /\ UNCHANGED <<notRun, restart>>
  /\ pc' = "finally"
  /\ UNCHANGED <<config, driver, wait, sessions, live, quitAttempted, story_urls,
                 urls_to_scrape, failed_urls_this_pass, idx, attempt,
                 all_stories_data, finishCalls, scrapeLog, passes, pauses, reported,
                 raised>>

\* Line 333: except Exception -> finish_callback(False, ...).
ExceptHandler ==
  /\ pc = "except"
  /\ UNCHANGED <<notRun, restart>>
  /\ FinishCallback(FALSE, FALSE)
  /\ pc' = "finally"
  /\ UNCHANGED <<config, driver, wait, sessions, live, quitAttempted, story_urls,
                 urls_to_scrape, failed_urls_this_pass, idx, attempt,
                 all_stories_data, scrapeLog, passes, pauses, reported, raised>>

\* Lines 334-337: driver.quit() on whatever `driver` is bound to; its errors
\* are swallowed.
Finally ==
  /\ pc = "finally"
  /\ UNCHANGED <<notRun, restart>>
  /\ quitAttempted' = quitAttempted \cup {driver}
  /\ live' = live \ {driver}
  /\ pc' = "done"
  /\ UNCHANGED <<config, driver, wait, sessions, story_urls, urls_to_scrape,
                 failed_urls_this_pass, idx, attempt, all_stories_data, finishCalls,
                 scrapeLog, passes, pauses, reported, raised>>

RunNext ==
  \/ SetupDriver
  \/ SetupWait
  \/ Discover
  \/ PassHead
  \/ CheckSession
  \/ Scrape
  \/ EndPass
  \/ AfterLoop
  \/ Serialize
  \/ ExceptHandler
  \/ Finally

Spec == RunInit /\ [][RunNext]_vars

\* ------------------------------------------------------------------ properties of run_scraper_main
LogIdx == 1..Len(scrapeLog)

\* The URLs for which scrape_story_details returned nothing in pass k, in call order.
IsNoneIn(k, e) == e.pass = k /\ e.result = "none"

FailedInPass(k) ==
  LET sel == SelectSeq(scrapeLog, LAMBDA e : IsNoneIn(k, e))
  IN  [i \in 1..Len(sel) |-> sel[i].url]

Attempts(u) == Cardinality({i \in LogIdx : scrapeLog[i].url = u})

\* The statement after the retry loop has been reached and no exception was raised.
RanToReport == pc \in {"finally", "done"} /\ story_urls # <<>> /\ ~raised

\* C1: finish_callback is invoked exactly once per run on every exit path: never
\* twice at any point, and exactly once when run_scraper_main has returned.
C1_FinishExactlyOnce ==
  /\ Len(finishCalls) <= 1
  /\ pc = "done" => Len(finishCalls) = 1

\* C1 witness: a run that returned after scrape_story_details raised in the
\* second pass, with one completion report.
C1_Witness ==
  /\ pc = "done"
  /\ Len(finishCalls) = 1
  /\ \E i \in LogIdx : scrapeLog[i].result = "raise" /\ scrapeLog[i].pass = 2

\* C2: when run_scraper_main has returned, driver.quit() has been attempted on
\* every session created during the run.
C2_AllSessionsQuit == pc = "done" => (1..sessions) \subseteq quitAttempted

\* C3: the work list of pass k+1 is exactly the list of URLs that failed in
\* pass k, it never grows, and a URL with a record is never scraped again.
C3_RetryOnlyFailed ==
  /\ urls_to_scrape = (IF attempt = 0 THEN story_urls ELSE FailedInPass(attempt))
  /\ Range(urls_to_scrape) \subseteq Range(story_urls)
  /\ Len(urls_to_scrape) <= Len(story_urls)
  /\ pc \in {"check_session", "scrape", "end_pass"}
       => LET next == FailedInPass(attempt + 1)
          IN  /\ Range(next) \subseteq Range(urls_to_scrape)
              /\ Len(next) <= Len(urls_to_scrape)
  /\ pc = "scrape" => urls_to_scrape[idx] \notin RecordUrls
  /\ Cardinality(RecordUrls) = Len(all_stories_data)

\* C3 witness: the third pass is about to scrape, its work list shorter than
\* that of the second pass, which was shorter than the discovered list.
C3_Witness ==
  /\ pc = "scrape"
  /\ attempt = 2
  /\ Len(urls_to_scrape) = 1
  /\ Len(FailedInPass(1)) = 3
  /\ Len(story_urls) = 5

\* C4: once the work list is empty after a pass no further pass is begun and no
\* further scrape call is made; all discovered URLs then have a record.
C4_EarlyStop ==
  (story_urls # <<>> /\ urls_to_scrape = <<>>)
    => /\ pc \notin {"check_session", "scrape", "end_pass"}
       /\ passes >= 1
       /\ \E i \in LogIdx : scrapeLog[i].pass = passes
       /\ \A i \in LogIdx : scrapeLog[i].pass = passes => scrapeLog[i].result = "record"
       /\ Len(all_stories_data) = Len(story_urls)

\* C4 witness: 5 URLs, 2 fail in pass 1 and succeed in pass 2; 3 passes were
\* allowed, 2 were run, and the result holds 5 records.
C4_Witness ==
  /\ pc = "done"
  /\ Len(story_urls) = 5
  /\ max_retries = 3
  /\ Len(FailedInPass(1)) = 2
  /\ passes = 2
  /\ urls_to_scrape = <<>>
  /\ Len(all_stories_data) = 5
  /\ finishCalls = <<[success |-> TRUE, payload |-> TRUE]>>

\* C5: at most max_retries passes are run (3 when the key is absent); after the
\* loop a URL still in the work list was attempted exactly max_retries times,
\* has no record and is in the list reported as still failing; the run is
\* reported as failure only when no record at all was assembled.
C5_RetryExhaustion ==
  /\ passes <= (IF "max_retries" \in DOMAIN config THEN config["max_retries"] ELSE 3)
  /\ (pc \in {"after_loop", "serialize"} \/ RanToReport)
       => \A u \in Range(urls_to_scrape) :
            /\ Attempts(u) = max_retries
            /\ u \notin RecordUrls
  /\ (pc = "serialize" \/ RanToReport)
       => reported = (IF urls_to_scrape # <<>> THEN <<urls_to_scrape>> ELSE <<>>)
  /\ RanToReport
       => /\ Len(finishCalls) = 1
          /\ finishCalls[1].success = (all_stories_data # <<>>)

\* C5 witness: max_retries absent, 2 URLs, the second fails in all 3 passes and
\* is reported, the run is a success with the first URL's record.
C5_Witness ==
  /\ pc = "done"
  /\ "max_retries" \notin DOMAIN config
  /\ Len(story_urls) = 2
  /\ urls_to_scrape = <<2>>
  /\ Attempts(2) = 3
  /\ reported = << <<2>> >>
  /\ ~raised
  /\ finishCalls[1].success

\* C6: a run whose session was created and that raised nothing reports success
\* with a payload iff at least one record was assembled, failure without
\* payload otherwise (no URLs discovered, or no record survived).
C6_TerminalOutcome ==
  (pc \in {"finally", "done"} /\ driver # 0 /\ ~raised)
    => finishCalls = << [success |-> all_stories_data # <<>>,
                         payload |-> all_stories_data # <<>>] >>

\* C6 witness: a finished run with a record and a URL still failing, reported
\* as success.
C6_Witness ==
  /\ pc = "done"
  /\ ~raised
  /\ urls_to_scrape # <<>>
  /\ all_stories_data # <<>>
  /\ finishCalls = <<[success |-> TRUE, payload |-> TRUE]>>

\* The URLs scrape_story_details was called with in pass k, in call order.
IsInPass(k, e) == e.pass = k

ScrapedInPass(k) ==
  LET sel == SelectSeq(scrapeLog, LAMBDA e : IsInPass(k, e))
  IN  [i \in 1..Len(sel) |-> sel[i].url]

\* C12: when the session is found lost and a fresh one is created, the scrape
\* call that follows is for the URL at which the loss was detected, in the
\* same pass over the same work list, with the records and the failed list as
\* they were, on the new session (driver and wait), and no completion has been
\* reported; every scrape call uses the latest session; a pass that reaches
\* its end has attempted every URL of its work list, in order.
C12_SessionLossRecovery ==
  /\ restart.seen
       => /\ pc = "scrape"
          /\ idx = restart.idx
          /\ attempt = restart.attempt
          /\ urls_to_scrape = restart.work
          /\ all_stories_data = restart.records
          /\ failed_urls_this_pass = restart.failed
          /\ driver # restart.old
          /\ restart.old \in quitAttempted
          /\ finishCalls = <<>>
  /\ pc = "scrape" => (driver = sessions /\ wait = driver)
  /\ pc = "end_pass" => ScrapedInPass(attempt + 1) = urls_to_scrape

\* C12 witness: the session was found lost at the second of three URLs, after
\* one record; the second URL is about to be scraped on session 2.
C12_Witness ==
  /\ pc = "scrape"
  /\ restart.seen
  /\ restart.idx = 2
  /\ idx = 2
  /\ Len(urls_to_scrape) = 3
  /\ Len(all_stories_data) = 1
  /\ driver = 2
  /\ wait = 2

\* C19: a pause has been taken after a finished pass exactly when that pass
\* left a non-empty work list and a further pass remained; none after the
\* last permitted pass, none after a pass that left the work list empty.
C19_PauseOnlyBeforeAPass ==
  pauses = Cardinality({k \in 1..attempt : FailedInPass(k) # <<>> /\ k < max_retries})

\* ------------------------------------------------------------------ get_story_links
MaxPages == 3         \* largest configured max_pages_to_scrape

\* The raw link targets an item-link element can carry (data-href or href),
\* by name: item a in absolute, document-relative and root-relative form and
\* with an .html suffix, items b and c, a placeholder anchor as written and as
\* the browser resolves it, the base URL itself, a URL of another site, a URL
\* of this site outside the stories path, and no target at all (None).
Hrefs == {"abs:a", "rel:a", "root:a", "abs:a.html", "abs:b", "abs:c", "#", "abs:#",
          "abs:base", "abs:foreign", "abs:offpath", "none"}

\* A URL or link target is a sequence of tokens: a host ("site" stands for
\* "https://site"), "/", a path segment, ".html", "#".
Hosts == {"site", "other"}

\* config['base_url']: "https://site/stories/"
BaseUrl == <<"site", "/", "stories", "/">>

\* The text of each link target.
Raw(h) ==
  CASE h = "abs:a" -> <<"site", "/", "stories", "/", "a">>
    [] h = "rel:a" -> <<"a">>
    [] h = "root:a" -> <<"/", "stories", "/", "a">>
    [] h = "abs:a.html" -> <<"site", "/", "stories", "/", "a", ".html">>
    [] h = "abs:b" -> <<"site", "/", "stories", "/", "b">>
    [] h = "abs:c" -> <<"site", "/", "stories", "/", "c">>
    [] h = "#" -> <<"#">>
    [] h = "abs:#" -> <<"site", "/", "stories", "/", "#">>
    [] h = "abs:base" -> <<"site", "/", "stories", "/">>
    [] h = "abs:foreign" -> <<"other", "/", "stories", "/", "x">>
    [] h = "abs:offpath" -> <<"site", "/", "about">>
    [] OTHER -> <<>>

\* Lines 119-120: a trailing "/.html" or ".html" is cut off.
StripHtml(t) ==
  IF Len(t) >= 2 /\ SubSeq(t, Len(t) - 1, Len(t)) = <<"/", ".html">>
  THEN SubSeq(t, 1, Len(t) - 2)
  ELSE IF Len(t) >= 1 /\ t[Len(t)] = ".html"
       THEN SubSeq(t, 1, Len(t) - 1)
       ELSE t

\* urljoin drops an empty fragment.
DropEmptyFragment(t) ==
  IF t # <<>> /\ t[Len(t)] = "#" THEN SubSeq(t, 1, Len(t) - 1) ELSE t

\* The base URL up to and including its last "/".
Dir(base) ==
  LET seps == {i \in 1..Len(base) : base[i] = "/"}
  IN  IF seps = {} THEN <<>>
      ELSE SubSeq(base, 1, CHOOSE i \in seps : \A j \in seps : j <= i)

\* urljoin that pastes the target after the base URL.
urljoinConcat(base, t) == base \o t

\* urllib.parse.urljoin(base, t), line 121.
urljoin(base, t) ==
  IF t = <<>> THEN base
  ELSE IF t[1] \in Hosts THEN DropEmptyFragment(t)
  ELSE IF t[1] = "/" THEN DropEmptyFragment(<<base[1]>> \o t)
  ELSE IF t[1] = "#" THEN DropEmptyFragment(base \o t)
  ELSE DropEmptyFragment(Dir(base) \o t)

\* Python's `sub in t` on strings.
Contains(sub, t) ==
  \E i \in 1..(Len(t) - Len(sub) + 1) : SubSeq(t, i, i + Len(sub) - 1) = sub

\* t.startswith(prefix)
StartsWith(t, prefix) ==
  Len(t) >= Len(prefix) /\ SubSeq(t, 1, Len(prefix)) = prefix

\* t.rsplit('/', n)[0]
RSplitHead(t, n) ==
  LET seps == {i \in 1..Len(t) : t[i] = "/"}
      cut == IF Cardinality(seps) >= n
             THEN CHOOSE i \in seps : Cardinality({j \in seps : j >= i}) = n
             ELSE IF seps = {} THEN Len(t) + 1
                  ELSE CHOOSE i \in seps : \A j \in seps : i <= j
  IN  SubSeq(t, 1, cut - 1)

\* Line 123-124: the first path segment of the company_name regex, by default
\* '/stories/([^/]+)/'.
path_start_segment == "stories"

path_start == RSplitHead(BaseUrl, 2) \o <<"/", path_start_segment, "/">>

\* Lines 119-121: the absolute URL a link target is turned into.
FullUrl(h) == urljoin(BaseUrl, StripHtml(Raw(h)))

\* Line 122, first test: urljoin(base_url, '/') in full_url.
SameSite(u) == Contains(urljoin(BaseUrl, <<"/">>), u)

\* Line 125: full_url.startswith(path_start).
UnderStoriesPath(u) == StartsWith(u, path_start)

\* Accepted without the path test of line 125.
AcceptedAnyPath(h) ==
  /\ Raw(h) # <<>>
  /\ SameSite(FullUrl(h))
  /\ FullUrl(h) # BaseUrl
  /\ StripHtml(Raw(h)) # <<"#">>

\* Lines 118-125: the tests a link target passes before it is added.
Accepted(h) ==
  /\ Raw(h) # <<>>
  /\ SameSite(FullUrl(h))
  /\ FullUrl(h) # BaseUrl
  /\ StripHtml(Raw(h)) # <<"#">>
  /\ UnderStoriesPath(FullUrl(h))

AcceptedUrls(d) == {FullUrl(d[i]) : i \in {j \in 1..Len(d) : Accepted(d[j])}}

\* The views of the listing container the site can show.
PageMenu == { <<>>,
              <<"abs:a">>,
              <<"abs:a", "abs:b">>,
              <<"abs:b", "rel:a">>,
              <<"abs:a", "abs:b", "abs:c">>,
              <<"#", "abs:#", "abs:base", "abs:foreign", "abs:offpath", "none">>,
              <<"abs:c">>,
              <<"abs:c", "root:a", "abs:a.html">> }

PaginationTypes == {"none", "click_button_by_page_number", "click_load_more",
                    "infinite_scroll"}

LinkConfigs == [max_pages_to_scrape : 1..MaxPages,
                pagination_type : PaginationTypes,
                next_page_button_selector : {"", "button.next"}]

max_pages_or_clicks == config["max_pages_to_scrape"]

\* get_attribute('data-href') or get_attribute('href') of the first link.
FirstHref(d) == d[1]

RECURSIVE SetToSeq(_)
\* list(links)
SetToSeq(S) ==
  IF S = {} THEN <<>>
  ELSE LET x == CHOOSE y \in S : TRUE IN <<x>> \o SetToSeq(S \ {x})

LinksInit ==
  /\ pc = "links_navigate"
  /\ config \in LinkConfigs
  /\ LinkIdle
  /\ RunIdle
  /\ DetailIdle
  /\ OtherIdle

\* Lines 84-95: driver.get(base_url) (outside any try: a raise leaves the
\* function) and the best-effort cookie banner click.
Navigate ==
  /\ UNCHANGED <<pagesSeen, stepFailed>>
  /\ pc = "links_navigate"
  /\ \/ \E d \in PageMenu : dom' = d /\ pc' = "links_initial_wait"
     \/ pc' = "links_raised" /\ UNCHANGED dom
  /\ UNCHANGED <<config, otherVars, runVars, detailVars, links, current_page, pagination_active,
                 last_first_href, returned, clicks, enumerations, loaded, stall>>

\* Lines 97-103: wait for the container and the first link; on timeout return [].
InitialWait ==
  /\ UNCHANGED <<pagesSeen, stepFailed>>
  /\ pc = "links_initial_wait"
  /\ IF dom = <<>>
     THEN /\ returned' = <<>>
          /\ pc' = "links_returned"
          /\ UNCHANGED <<current_page, pagination_active, last_first_href>>
     ELSE /\ current_page' = 1
          /\ pagination_active' = TRUE
          /\ last_first_href' = ""
          /\ pc' = "links_loop_head"
          /\ UNCHANGED returned
  /\ UNCHANGED <<config, otherVars, runVars, detailVars, dom, links, clicks, enumerations, loaded, stall>>

\* Line 104: while pagination_active and current_page <= max_pages_or_clicks.
LoopHead ==
  /\ pc = "links_loop_head"
  /\ pc' = IF pagination_active /\ current_page <= max_pages_or_clicks
           THEN "links_fingerprint" ELSE "links_finish"
  /\ UNCHANGED <<config, otherVars, runVars, detailVars, linkVars>>

\* StopPagination that lets the exception leave the function.
StopPaginationRaise ==
  /\ pagination_active' = FALSE
  /\ pc' = "links_raised"
  /\ UNCHANGED current_page

\* Lines 160-161: the handlers of the page loop's try.
StopPagination ==
  /\ pagination_active' = FALSE
  /\ pc' = "links_loop_head"
  /\ UNCHANGED current_page

\* Fingerprint without the stall test of line 111.
FingerprintNoStallCheck ==
  /\ UNCHANGED <<pagesSeen, stepFailed>>
  /\ pc = "links_fingerprint"
  /\ IF dom = <<>>
     THEN StopPagination /\ UNCHANGED last_first_href
     ELSE /\ last_first_href' = FirstHref(dom)
          /\ pc' = "links_enumerate"
          /\ UNCHANGED <<current_page, pagination_active>>
  /\ UNCHANGED <<config, otherVars, runVars, detailVars, dom, links, returned, clicks, enumerations,
                 loaded, stall>>

\* Lines 105-112: wait for the first link (a timeout stops pagination), read
\* its href, break if it equals the previous iteration's.
Fingerprint ==
  /\ UNCHANGED <<pagesSeen, stepFailed>>
  /\ pc = "links_fingerprint"
  /\ IF dom = <<>>
     THEN StopPagination /\ UNCHANGED last_first_href
     ELSE IF current_page > 1 /\ FirstHref(dom) = last_first_href
          THEN /\ pc' = "links_finish"
               /\ UNCHANGED <<current_page, pagination_active, last_first_href>>
          ELSE /\ last_first_href' = FirstHref(dom)
               /\ pc' = "links_enumerate"
               /\ UNCHANGED <<current_page, pagination_active>>
  /\ UNCHANGED <<config, otherVars, runVars, detailVars, dom, links, returned, clicks, enumerations,
                 loaded, stall>>

\* Lines 113-129: add every accepted link target; no link element at all on
\* page 1 returns [].
Enumerate ==
  /\ pagesSeen' = Append(pagesSeen, dom)
  /\ UNCHANGED stepFailed
  /\ pc = "links_enumerate"
  /\ enumerations' = enumerations + 1
  /\ links' = links \cup AcceptedUrls(dom)
  /\ IF dom = <<>> /\ current_page = 1
     THEN returned' = <<>> /\ pc' = "links_returned"
     ELSE pc' = "links_paginate" /\ UNCHANGED returned
  /\ UNCHANGED <<config, otherVars, runVars, detailVars, dom, current_page, pagination_active,
                 last_first_href, clicks, loaded, stall>>

\* NextIteration that leaves current_page as it is.
NextIterationSamePage(active) ==
  /\ pagination_active' = (active /\ current_page < max_pages_or_clicks)
  /\ current_page' = current_page
  /\ pc' = "links_loop_head"

\* Lines 158-159, reached when the pagination step raised nothing.
NextIteration(active) ==
  /\ pagination_active' = (active /\ current_page < max_pages_or_clicks)
  /\ current_page' = current_page + 1
  /\ pc' = "links_loop_head"

\* A pagination click after which the container shows d.
Click(d) ==
  /\ clicks' = clicks + 1
  /\ dom' = d
  /\ stall' = IF ~stall.seen /\ d # <<>> /\ FirstHref(d) = last_first_href
              THEN [seen |-> TRUE, clicks |-> clicks + 1,
                    enumerations |-> enumerations, links |-> links]
              ELSE stall

\* Lines 131-145: the page-number strategy.  The pagination container or the
\* page button may be missing (timeout); after the click the code waits for
\* the first link to be visible and for its href to differ from
\* last_first_href (timeout otherwise).
PaginateByPageNumber ==
  /\ UNCHANGED pagesSeen
  /\ pc = "links_paginate"
  /\ current_page < max_pages_or_clicks
  /\ config["pagination_type"] = "click_button_by_page_number"
  /\ config["next_page_button_selector"] # ""
  /\ \/ StopPagination /\ stepFailed' = "control" /\ UNCHANGED <<dom, clicks, stall>>
     \/ \E d \in PageMenu :
          /\ Click(d)
          /\ IF d # <<>> /\ FirstHref(d) # last_first_href
             THEN NextIteration(pagination_active) /\ UNCHANGED stepFailed
             ELSE StopPagination /\ stepFailed' = "wait"
  /\ UNCHANGED <<config, otherVars, runVars, detailVars, links, last_first_href, returned, enumerations,
                 loaded>>

\* PaginateLoadMore without the test of the selector at line 146.
PaginateLoadMoreAnySelector ==
  /\ UNCHANGED pagesSeen
  /\ pc = "links_paginate"
  /\ current_page < max_pages_or_clicks
  /\ config["pagination_type"] = "click_load_more"
  /\ \/ /\ StopPagination
        /\ stepFailed' = "control"
        /\ UNCHANGED <<dom, clicks, stall, loaded>>
     \/ \E d \in PageMenu :
          /\ Click(d)
          /\ IF Len(d) > Len(dom)
             THEN /\ NextIteration(pagination_active)
                  /\ loaded' = loaded \cup AcceptedUrls(d)
                  /\ UNCHANGED stepFailed
             ELSE StopPagination /\ stepFailed' = "wait" /\ UNCHANGED loaded
  /\ UNCHANGED <<config, otherVars, runVars, detailVars, links, last_first_href, returned, enumerations>>

\* Lines 146-156: the load-more strategy.  The button may be missing or the
\* click may fail; after the click the code waits for the item count to grow
\* (timeout otherwise).
PaginateLoadMore ==
  /\ UNCHANGED pagesSeen
  /\ pc = "links_paginate"
  /\ current_page < max_pages_or_clicks
  /\ config["pagination_type"] = "click_load_more"
  /\ config["next_page_button_selector"] # ""
  /\ \/ /\ StopPagination
        /\ stepFailed' = "control"
        /\ UNCHANGED <<dom, clicks, stall, loaded>>
     \/ \E d \in PageMenu :
          /\ Click(d)
          /\ IF Len(d) > Len(dom)
             THEN /\ NextIteration(pagination_active)
                  /\ loaded' = loaded \cup AcceptedUrls(d)
                  /\ UNCHANGED stepFailed
             ELSE StopPagination /\ stepFailed' = "wait" /\ UNCHANGED loaded
  /\ UNCHANGED <<config, otherVars, runVars, detailVars, links, last_first_href, returned, enumerations>>

\* Lines 131 and 157-159: no page left, or no strategy configured.
PaginateNone ==
  /\ UNCHANGED <<pagesSeen, stepFailed>>
  /\ pc = "links_paginate"
  /\ IF current_page < max_pages_or_clicks
     THEN /\ ~(/\ config["pagination_type"] \in {"click_button_by_page_number",
                                                 "click_load_more"}
               /\ config["next_page_button_selector"] # "")
          /\ NextIteration(FALSE)
     ELSE NextIteration(pagination_active)
  /\ UNCHANGED <<config, otherVars, runVars, detailVars, dom, links, last_first_href, returned, clicks,
                 enumerations, loaded, stall>>

\* Lines 162-163: return list(links).
Finish ==
  /\ UNCHANGED <<pagesSeen, stepFailed>>
  /\ pc = "links_finish"
  /\ returned' = SetToSeq(links)
  /\ pc' = "links_returned"
  /\ UNCHANGED <<config, otherVars, runVars, detailVars, dom, links, current_page, pagination_active,
                 last_first_href, clicks, enumerations, loaded, stall>>

LinksNext ==
  \/ Navigate
  \/ InitialWait
  \/ LoopHead
  \/ Fingerprint
  \/ Enumerate
  \/ PaginateByPageNumber
  \/ PaginateLoadMore
  \/ PaginateNone
  \/ Finish

SpecLinks == LinksInit /\ [][LinksNext]_vars

\* ------------------------------------------------------------------ properties of get_story_links
\* C7: under click_load_more, the URLs shown after a load-more click that made
\* the item count grow are in the list get_story_links returns.
C7_LoadMoreCollected ==
  (pc = "links_returned" /\ config["pagination_type"] = "click_load_more")
    => loaded \subseteq Range(returned)

\* C8: after a pagination click that leaves the first link's href equal to the
\* recorded fingerprint, no further click is made, the container is not
\* enumerated again, nothing is raised, and the links accumulated up to then
\* are what is returned.
C8_StallEndsPagination ==
  stall.seen
    => /\ clicks = stall.clicks
       /\ enumerations = stall.enumerations
       /\ links = stall.links
       /\ pc # "links_raised"
       /\ pc = "links_returned" => Range(returned) = stall.links

\* C8 witness: a load-more click left the first href unchanged with pages
\* still allowed; the function has returned the links of the first view.
C8_Witness ==
  /\ pc = "links_returned"
  /\ stall.seen
  /\ stall.clicks = 1
  /\ config["pagination_type"] = "click_load_more"
  /\ config["max_pages_to_scrape"] = 3
  /\ current_page = 2
  /\ returned # <<>>

\* The link targets of the pages enumerated so far, and the URLs accepted from them.
SeenTargets == UNION {Range(pagesSeen[i]) : i \in 1..Len(pagesSeen)}

AllAccepted == UNION {AcceptedUrls(pagesSeen[i]) : i \in 1..Len(pagesSeen)}

\* The item a URL shows: its last path segment.
Item(u) == u[Len(u)]

\* C15: the returned list holds no URL twice and no item twice; item a, seen
\* in absolute form on one page and in relative form on another, is one
\* element.
C15_NoDuplicateUrls ==
  pc = "links_returned"
    => /\ \A i, j \in 1..Len(returned) :
            i # j => (returned[i] # returned[j] /\ Item(returned[i]) # Item(returned[j]))
       /\ (returned # <<>> /\ {"abs:a", "rel:a"} \subseteq SeenTargets)
            => /\ FullUrl("rel:a") = FullUrl("abs:a")
               /\ Cardinality({i \in 1..Len(returned) : returned[i] = FullUrl("abs:a")}) = 1

\* C15 witness: page 1 showed a in absolute form, page 2 showed b and a in
\* relative form; two URLs are returned.
C15_Witness ==
  /\ pc = "links_returned"
  /\ pagesSeen = << <<"abs:a">>, <<"abs:b", "rel:a">> >>
  /\ Len(returned) = 2

\* The link targets that are the base URL or a placeholder anchor.
BaseOrPlaceholder == {"#", "abs:#", "abs:base"}

C17_PaginationFailureContained ==
  stepFailed # ""
    => /\ pc \in {"links_loop_head", "links_finish", "links_returned"}
       /\ ~pagination_active
       /\ links = AllAccepted
       /\ pc = "links_returned" => Range(returned) = AllAccepted

\* C17 witness: the wait after the second click timed out; the URLs of the
\* two pages enumerated before are returned.
C17_Witness ==
  /\ pc = "links_returned"
  /\ stepFailed = "wait"
  /\ clicks = 2
  /\ Len(pagesSeen) = 2
  /\ Len(returned) = 3

\* C18: if the container never appears, or the first page enumerated yields
\* no URL, no pagination click is made, nothing is raised and the empty list
\* is returned.
C18_EmptyFirstPageStops ==
  /\ (pc = "links_returned" /\ pagesSeen = <<>>) => (returned = <<>> /\ clicks = 0)
  /\ (pagesSeen # <<>> /\ AcceptedUrls(pagesSeen[1]) = {})
       => /\ clicks = 0
          /\ pc # "links_raised"
          /\ pc = "links_returned" => returned = <<>>

\* ------------------------------------------------------------------ scrape_story_details
MaxRules == 3         \* rules configured for one field
MaxFields == 2        \* fields of data_selectors
MaxPoints == 8        \* largest point total classified
MaxThreshold == 8     \* largest configured threshold

DefaultHigh == 7      \* conf_thresholds.get('high', 7)
DefaultMedium == 4    \* conf_thresholds.get('medium', 4)

\* Text is a sequence of characters.  "(" and ")" stand for the two halves of
\* the phrase "(Opens in a new tab)": the phrase is the two in a row.
Boilerplate == <<"(", ")">>

Whitespace == {" "}

QuoteChars == {"'"}

\* The member of SECTION_KEYWORDS that the letters used here can spell.
SECTION_KEYWORDS == { <<"a", "t">> }

LowerChar(c) == CASE c = "A" -> "a" [] c = "T" -> "t" [] c = "X" -> "x" [] OTHER -> c

Lower(t) == [i \in 1..Len(t) |-> LowerChar(t[i])]

RECURSIVE RemoveBoilerplate(_)
\* text.replace("(Opens in a new tab)", ""): left to right, not overlapping.
RemoveBoilerplate(t) ==
  IF Len(t) < 2 THEN t
  ELSE IF SubSeq(t, 1, 2) = Boilerplate
       THEN RemoveBoilerplate(SubSeq(t, 3, Len(t)))
       ELSE <<t[1]>> \o RemoveBoilerplate(Tail(t))

RECURSIVE LStrip(_, _)
LStrip(t, chars) ==
  IF t # <<>> /\ t[1] \in chars THEN LStrip(Tail(t), chars) ELSE t

RECURSIVE RStrip(_, _)
RStrip(t, chars) ==
  IF t # <<>> /\ t[Len(t)] \in chars THEN RStrip(SubSeq(t, 1, Len(t) - 1), chars) ELSE t

\* str.strip(chars)
Strip(t, chars) == RStrip(LStrip(t, chars), chars)

\* clean_text, lines 28-31.
clean_text(v) ==
  IF ~v.some \/ v.text = <<>> THEN None
  ELSE Some(Strip(Strip(Strip(RemoveBoilerplate(v.text), Whitespace), QuoteChars),
                  Whitespace))

\* One entry of a field's rule list together with what the page gives for it:
\* `find` is the outcome of locating its elements (lines 199-209), `extract`
\* the outcome of its extraction method on the element (lines 213-215).
Rule(selector, method, min_length, confidence, find, extract) ==
  [selector |-> selector, method |-> method, min_length |-> min_length,
   confidence |-> confidence, find |-> find, extract |-> extract]

Raises == [some |-> FALSE, text |-> <<"raise">>]

AcceptingRules ==
  { Rule("h1", "text", 0, 3, "found", Some(<<"x", "x", "x">>)),
    Rule("h2", "text", 2, 5, "found", Some(<<" ", "'", "T", "a", "x", "'">>)),
    Rule("title_element", "text", 0, 1, "found", Some(<<"x", "(", ")", "a">>)) }

RejectingRules ==
  { Rule("", "text", 0, 4, "found", Some(<<"x", "x", "x">>)),       \* line 193
    Rule("p", "bogus", 0, 4, "found", Some(<<"x", "x", "x">>)),     \* line 222
    Rule("p", "text", 0, 4, "empty", None),                         \* line 207
    Rule("p", "text", 0, 4, "error", None),                         \* line 209
    Rule("p", "text", 0, 4, "found", Raises),                       \* line 221
    Rule("p", "text", 0, 4, "found", Some(<<" ", "(", ")", "'">>)), \* cleans to ""
    Rule("p", "text", 0, 4, "found", Some(<<"A", "t">>)),           \* a section keyword
    Rule("p", "text", 4, 4, "found", Some(<<"x", "x", "x">>)) }     \* below min_length

RuleSet == AcceptingRules \cup RejectingRules

RuleLists == UNION {[1..n -> RuleSet] : n \in 0..MaxRules}

FieldNames == {"title", "summary"}

\* Lines 193-217 for one rule: whether its cleaned value is accepted.
RuleAccepts(r, title_el) ==
  /\ r.selector # "" /\ r.method # ""
  /\ IF r.selector = "title_element" THEN title_el ELSE r.find = "found"
  /\ r.method = "text"
  /\ r.extract # Raises
  /\ LET cleaned_value == clean_text(r.extract)
     IN  /\ cleaned_value.some
         /\ cleaned_value.text # <<>>
         /\ Len(cleaned_value.text) >= r.min_length
         /\ Lower(cleaned_value.text) \notin SECTION_KEYWORDS

Max(a, b) == IF a >= b THEN a ELSE b

RECURSIVE EvalRulesNoBreak(_, _, _, _)
\* The rule loop without the break of line 220: every rule is evaluated, the
\* last accepted value stays and the largest weight is kept.
EvalRulesNoBreak(rules, i, title_el, acc) ==
  IF i > Len(rules) THEN [acc EXCEPT !.stop = Len(rules)]
  ELSE IF RuleAccepts(rules[i], title_el)
       THEN EvalRulesNoBreak(rules, i + 1, title_el,
              [value |-> clean_text(rules[i].extract),
               highest_confidence |-> Max(acc.highest_confidence, rules[i].confidence),
               stop |-> i])
       ELSE EvalRulesNoBreak(rules, i + 1, title_el, acc)

RECURSIVE EvalRules(_, _, _, _)
\* Lines 189-222: the loop over a field's rules from rule i on; acc holds
\* field_value and highest_confidence, stop the index of the rule the loop
\* broke at (Len(rules) if it ran to the end).
EvalRules(rules, i, title_el, acc) ==
  IF i > Len(rules) THEN [acc EXCEPT !.stop = Len(rules)]
  ELSE IF RuleAccepts(rules[i], title_el)
       THEN [value |-> clean_text(rules[i].extract),
             highest_confidence |-> Max(acc.highest_confidence, rules[i].confidence),
             stop |-> i]
       ELSE EvalRules(rules, i + 1, title_el, acc)

\* Line 182: field_value, highest_confidence = None, 0.
FieldStart == [value |-> None, highest_confidence |-> 0, stop |-> 0]

\* confidence_thresholds is absent, or a dict with any of the keys high, medium.
ThresholdDicts(range) ==
  {<<>>} \cup {[high |-> h] : h \in range} \cup {[medium |-> m] : m \in range}
         \cup {[high |-> h, medium |-> m] : h \in range, m \in range}

ScoreConfigs ==
  {<<>>} \cup {[confidence_thresholds |-> d] : d \in ThresholdDicts(0..MaxThreshold)}

DetailConfigs == {<<>>}

\* Lines 169 and 225.
conf_thresholds ==
  CfgGet(config, "confidence_thresholds", [high |-> DefaultHigh, medium |-> DefaultMedium])

high_threshold == CfgGet(conf_thresholds, "high", DefaultHigh)

medium_threshold == CfgGet(conf_thresholds, "medium", DefaultMedium)

DetailsInit ==
  /\ pc = "details_load"
  /\ config \in DetailConfigs
  /\ DetailIdle
  /\ RunIdle
  /\ LinkIdle
  /\ OtherIdle

\* What loading the item page can come to (lines 170-179).
LoadOutcomes == {"loaded", "navigation_timeout", "wait_timeout", "navigation_error",
                 "session_error"}

\* Lines 170-179: set the page-load timeout, navigate, wait for the configured
\* element, read the markup.  TimeoutException and any other exception of
\* driver.get / wait.until return None (lines 173-174); set_page_load_timeout
\* at line 170 and page_source at line 179 are outside the try, so a failing
\* session raises out of the function there.
Load ==
  /\ pc = "details_load"
  /\ \E outcome \in LoadOutcomes :
       /\ failure' = IF outcome = "loaded" THEN failure ELSE outcome
       /\ pc' = CASE outcome = "loaded" -> "details_fields"
                  [] outcome = "session_error" -> "details_raised"
                  [] OTHER -> "details_none"
  /\ UNCHANGED <<config, otherVars, runVars, linkVars, story_data, confidence_points,
                 title_element, fieldsDone, field, selectors, field_value,
                 highest_confidence, ruleStop, confidence_score, needs_verification>>

\* What the configured regular expression does on the item URL (lines 184-186):
\* it matches with a non-empty group 1, matches with an empty group 1, does not
\* match, matches but has no group 1 at all, or is not a valid expression.
RegexOutcomes == {"group", "empty_group", "no_match", "no_group", "invalid"}

\* The value derived from the URL: match.group(1) with '-' replaced and title-cased.
UrlName == Some(<<"N">>)

\* Lines 183-187 for the field company_name configured as {"source": "url"}.
\* re.search is inside a try whose handler only logs; `match` is then read at
\* line 186 outside it.  An invalid expression leaves `match` unbound
\* (UnboundLocalError at line 186) and an expression without a group makes
\* match.group(1) raise IndexError: both leave the function.
UrlField ==
  /\ pc = "details_fields"
  /\ fieldsDone < MaxFields
  /\ "company_name" \notin DOMAIN story_data
  /\ \E outcome \in RegexOutcomes :
       CASE outcome = "group" ->
              /\ story_data' = Merge(story_data, [f \in {"company_name"} |-> UrlName])
              /\ confidence_points' = confidence_points + 2
              /\ fieldsDone' = fieldsDone + 1
              /\ UNCHANGED <<pc, failure>>
         [] outcome \in {"empty_group", "no_match"} ->
              /\ story_data' = Merge(story_data, [f \in {"company_name"} |-> None])
              /\ fieldsDone' = fieldsDone + 1
              /\ UNCHANGED <<pc, failure, confidence_points>>
         [] OTHER ->
              /\ failure' = IF outcome = "invalid" THEN "regex_error" ELSE "regex_group"
              /\ pc' = "details_raised"
              /\ UNCHANGED <<story_data, confidence_points, fieldsDone>>
  /\ UNCHANGED <<config, otherVars, runVars, linkVars, title_element, field, selectors,
                 field_value, highest_confidence, ruleStop, confidence_score,
                 needs_verification>>

\* Whether one of the rules 1..n raised while its element was located (line
\* 209) or while its extraction method ran (line 221).
RuleRaised(rules, n, title_el) ==
  \E i \in 1..n :
    /\ rules[i].selector # "" /\ rules[i].method # ""
    /\ IF rules[i].selector = "title_element"
       THEN title_el /\ rules[i].extract = Raises
       ELSE \/ rules[i].find = "error"
            \/ rules[i].find = "found" /\ rules[i].method = "text"
                 /\ rules[i].extract = Raises

\* Lines 181-222 for the next field of data_selectors, a field with a rule
\* list: the rule loop.
EvalField ==
  /\ pc = "details_fields"
  /\ fieldsDone < MaxFields
  /\ \E f \in FieldNames \ DOMAIN story_data, rules \in RuleLists :
       LET r == EvalRules(rules, 1, title_element, FieldStart)
       IN  /\ field' = f
           /\ selectors' = rules
           /\ field_value' = r.value
           /\ highest_confidence' = r.highest_confidence
           /\ ruleStop' = r.stop
           /\ title_element' = (title_element \/ (f = "title" /\ r.value.some))
           /\ failure' = IF RuleRaised(rules, r.stop, title_element)
                          THEN "extraction" ELSE failure
  /\ pc' = "details_store"
  /\ UNCHANGED <<config, otherVars, runVars, linkVars, story_data, confidence_points,
                 fieldsDone, confidence_score, needs_verification>>

\* Lines 223-224: store the field and add its points; the loop of line 181
\* moves on.
StoreField ==
  /\ pc = "details_store"
  /\ story_data' = Merge(story_data, [f \in {field} |-> field_value])
  /\ confidence_points' =
       IF field_value.some /\ field_value.text # <<>>
       THEN confidence_points + highest_confidence
       ELSE confidence_points
  /\ fieldsDone' = fieldsDone + 1
  /\ field' = ""
  /\ selectors' = <<>>
  /\ field_value' = None
  /\ highest_confidence' = 0
  /\ ruleStop' = 0
  /\ pc' = "details_fields"
  /\ UNCHANGED <<config, otherVars, runVars, linkVars, title_element, failure, confidence_score,
                 needs_verification>>

\* The loop of line 181 is over.
EndFields ==
  /\ pc = "details_fields"
  /\ pc' = "details_classify"
  /\ UNCHANGED <<config, otherVars, runVars, linkVars, detailVars>>

\* Classify with strict comparisons.
ClassifyStrict ==
  /\ pc = "details_classify"
  /\ IF confidence_points > high_threshold
     THEN confidence_score' = "High" /\ needs_verification' = "No"
     ELSE IF confidence_points > medium_threshold
          THEN confidence_score' = "Medium" /\ needs_verification' = "Yes"
          ELSE confidence_score' = "Low" /\ needs_verification' = "Yes"
  /\ pc' = "details_returned"
  /\ UNCHANGED <<config, otherVars, runVars, linkVars, story_data, confidence_points,
                 title_element, fieldsDone, field, selectors, field_value,
                 highest_confidence, ruleStop, failure>>

\* Lines 225-229.
Classify ==
  /\ pc = "details_classify"
  /\ IF confidence_points >= high_threshold
     THEN confidence_score' = "High" /\ needs_verification' = "No"
     ELSE IF confidence_points >= medium_threshold
          THEN confidence_score' = "Medium" /\ needs_verification' = "Yes"
          ELSE confidence_score' = "Low" /\ needs_verification' = "Yes"
  /\ pc' = "details_returned"
  /\ UNCHANGED <<config, otherVars, runVars, linkVars, story_data, confidence_points,
                 title_element, fieldsDone, field, selectors, field_value,
                 highest_confidence, ruleStop, failure>>

DetailsNext ==
  \/ Load
  \/ UrlField
  \/ EvalField
  \/ StoreField
  \/ EndFields
  \/ Classify

SpecDetails == DetailsInit /\ [][DetailsNext]_vars

\* Classification alone: any point total against any thresholds.
ScoreInit ==
  /\ pc = "details_classify"
  /\ config \in ScoreConfigs
  /\ confidence_points \in 0..MaxPoints
  /\ story_data = <<>>
  /\ title_element = FALSE
  /\ fieldsDone = 0
  /\ NoField
  /\ failure = ""
  /\ confidence_score = ""
  /\ needs_verification = ""
  /\ RunIdle
  /\ LinkIdle
  /\ OtherIdle

ScoreNext == Classify

SpecScore == ScoreInit /\ [][ScoreNext]_vars

\* ------------------------------------------------------------------ properties of scrape_story_details
\* C9 as stated: High iff p >= high, Medium iff medium <= p < high, Low iff
\* p < medium, and needs_verification is No iff the score is High.
C9_ClassificationAsStated ==
  pc = "details_returned"
    => /\ confidence_score = "High" <=> confidence_points >= high_threshold
       /\ confidence_score = "Medium" <=>
            (medium_threshold <= confidence_points /\ confidence_points < high_threshold)
       /\ confidence_score = "Low" <=> confidence_points < medium_threshold
       /\ needs_verification = "No" <=> confidence_score = "High"
       /\ needs_verification \in {"Yes", "No"}

\* C9 amended: High iff p >= high, Medium iff medium <= p < high, Low iff p is
\* below both thresholds, and needs_verification is No iff the score is High.
C9_Classification ==
  pc = "details_returned"
    => /\ confidence_score = "High" <=> confidence_points >= high_threshold
       /\ confidence_score = "Medium" <=>
            (medium_threshold <= confidence_points /\ confidence_points < high_threshold)
       /\ confidence_score = "Low" <=>
            (confidence_points < medium_threshold /\ confidence_points < high_threshold)
       /\ needs_verification = "No" <=> confidence_score = "High"
       /\ needs_verification \in {"Yes", "No"}
       /\ (conf_thresholds = [high |-> 7, medium |-> 4] /\ confidence_points = 7)
            => (confidence_score = "High" /\ needs_verification = "No")
       /\ (conf_thresholds = [high |-> 7, medium |-> 4] /\ confidence_points = 4)
            => (confidence_score = "Medium" /\ needs_verification = "Yes")
       /\ (conf_thresholds = [high |-> 7, medium |-> 4] /\ confidence_points = 3)
            => (confidence_score = "Low" /\ needs_verification = "Yes")

\* C9 witness: thresholds {high: 7, medium: 4} and 4 points give Medium / Yes.
C9_Witness ==
  /\ pc = "details_returned"
  /\ "confidence_thresholds" \in DOMAIN config
  /\ conf_thresholds = [high |-> 7, medium |-> 4]
  /\ confidence_points = 4
  /\ confidence_score = "Medium"
  /\ needs_verification = "Yes"

\* Whether title_element was set when the rule loop of the current field began
\* (only the field title sets it).
TitleBefore == IF field = "title" THEN FALSE ELSE title_element

\* The rules of the current field that accept, by position.
AcceptingAt == {i \in 1..Len(selectors) : RuleAccepts(selectors[i], TitleBefore)}

Min(S) == CHOOSE m \in S : \A n \in S : m <= n

\* C10: when a field with a rule list is stored, its value is the cleaned value
\* of the first rule, in configuration order, that accepts; the rule loop
\* ended at that rule (no later rule was evaluated); exactly that rule's
\* weight is added to the point total.  With no accepting rule the field is
\* absent and nothing is added.
C10_FirstMatchWins ==
  [][pc = "details_store"
       => IF AcceptingAt = {}
          THEN /\ story_data'[field] = None
               /\ confidence_points' = confidence_points
               /\ ruleStop = Len(selectors)
          ELSE LET first == selectors[Min(AcceptingAt)]
               IN  /\ story_data'[field] = clean_text(first.extract)
                   /\ confidence_points' = confidence_points + first.confidence
                   /\ ruleStop = Min(AcceptingAt)]_vars

\* C10 witness: rules [R1 rejects, R2 accepts with weight 3, R3 accepts with
\* weight 5] were evaluated: the value is R2's, the loop ended at R2 and 3
\* points are about to be added.
C10_Witness ==
  /\ pc = "details_store"
  /\ Len(selectors) = 3
  /\ selectors[1] \in RejectingRules
  /\ selectors[2] \in AcceptingRules /\ selectors[2].confidence = 3
  /\ selectors[3] \in AcceptingRules /\ selectors[3].confidence = 5
  /\ field_value = Some(<<"x", "x", "x">>)
  /\ highest_confidence = 3
  /\ ruleStop = 2

\* C11: a navigation timeout, a wait-condition timeout or an exception raised
\* while a field is extracted (the regular-expression step of the URL-derived
\* field included) never leaves scrape_story_details as an exception: the
\* function returns None (the URL goes on the failed list) or goes on with the
\* field absent.
C11_ItemFailureContained ==
  /\ failure \in {"navigation_timeout", "wait_timeout", "navigation_error"}
       => pc = "details_none"
  /\ failure \in {"extraction", "regex_error", "regex_group"}
       => pc \in {"details_fields", "details_store", "details_classify",
                  "details_returned"}

\* ------------------------------------------------------------------ the progress log
MaxRuns == 2          \* runs started from the page
MaxLogBefore == 2     \* messages one run logs before its completion report

\* The n-th message passed to log_callback by the worker of run r.
Message(r, n) == [run |-> r, n |-> n]

Messages(r, n) == [i \in 1..n |-> Message(r, i)]

LogInit ==
  /\ pc = "page"
  /\ config = <<>>
  /\ UiIdle
  /\ CleanIdle
  /\ SaveIdle
  /\ RunIdle
  /\ LinkIdle
  /\ DetailIdle

\* A script run renders the start button (line 425: disabled while a run is
\* going) and shows the buffer (lines 442, 507).
Render ==
  /\ button_enabled' = ~is_running
  /\ UNCHANGED <<pc, config, runVars, linkVars, detailVars, cleanVars, saveVars,
                 log_buffer, is_running, runs, wpc, wtmp, wsent>>

\* Lines 481-502: the start button was pressed.  The buffer is reset and the
\* worker thread of the new run is started.
Start ==
  /\ button_enabled
  /\ ~is_running
  /\ runs < MaxRuns
  /\ is_running' = TRUE
  /\ log_buffer' = <<>>
  /\ runs' = runs + 1
  /\ wpc' = Append(wpc, "before")
  /\ wtmp' = Append(wtmp, <<>>)
  /\ wsent' = Append(wsent, 0)
  /\ button_enabled' = FALSE
  /\ UNCHANGED <<pc, config, runVars, linkVars, detailVars, cleanVars, saveVars>>

\* Line 458, first half: log_buffer += message reads the buffer.  A worker
\* logs before its completion report (at least once, line 239) and, on the
\* paths through the finally of line 334, once after it (lines 335-337).
WorkerRead(r) ==
  /\ \/ wpc[r] = "before" /\ wsent[r] < MaxLogBefore
     \/ wpc[r] = "after"
  /\ wtmp' = [wtmp EXCEPT ![r] = log_buffer]
  /\ wpc' = [wpc EXCEPT ![r] = IF wpc[r] = "before" THEN "store_before" ELSE "store_after"]
  /\ UNCHANGED <<pc, config, runVars, linkVars, detailVars, cleanVars, saveVars,
                 log_buffer, is_running, button_enabled, runs, wsent>>

\* Line 458, second half: the value read, with the message appended, is
\* stored back.
WorkerWrite(r) ==
  /\ wpc[r] \in {"store_before", "store_after"}
  /\ log_buffer' = Append(wtmp[r], Message(r, wsent[r] + 1))
  /\ wsent' = [wsent EXCEPT ![r] = wsent[r] + 1]
  /\ wpc' = [wpc EXCEPT ![r] = IF wpc[r] = "store_before" THEN "before" ELSE "exited"]
  /\ UNCHANGED <<pc, config, runVars, linkVars, detailVars, cleanVars, saveVars,
                 is_running, button_enabled, runs, wtmp>>

\* finish_callback, called from the worker (line 477): is_running = False.
WorkerFinish(r) ==
  /\ wpc[r] = "before"
  /\ wsent[r] >= 1
  /\ is_running' = FALSE
  /\ wpc' = [wpc EXCEPT ![r] = "after"]
  /\ UNCHANGED <<pc, config, runVars, linkVars, detailVars, cleanVars, saveVars,
                 log_buffer, button_enabled, runs, wtmp, wsent>>

\* Line 275: the return of the setup handler, with nothing logged after the
\* completion report.
WorkerExit(r) ==
  /\ wpc[r] = "after"
  /\ wpc' = [wpc EXCEPT ![r] = "exited"]
  /\ UNCHANGED <<pc, config, runVars, linkVars, detailVars, cleanVars, saveVars,
                 log_buffer, is_running, button_enabled, runs, wtmp, wsent>>

LogNext ==
  \/ Render
  \/ Start
  \/ \E r \in 1..runs : WorkerRead(r)
  \/ \E r \in 1..runs : WorkerWrite(r)
  \/ \E r \in 1..runs : WorkerFinish(r)
  \/ \E r \in 1..runs : WorkerExit(r)

SpecLog == LogInit /\ [][LogNext]_vars

\* C13: the buffer shown for the latest run holds exactly the messages its
\* worker has passed to log_callback so far, each once and in call order;
\* none is lost, duplicated, or taken from another run.
C13_LogExactlyOnce == runs >= 1 => log_buffer = Messages(runs, wsent[runs])

\* ------------------------------------------------------------------ clean_text applied twice
MaxText == 4          \* longest input text

\* The characters of the inputs: whitespace, a quote character, the two halves
\* of the boilerplate phrase, and a letter.
Chars == Whitespace \cup QuoteChars \cup {"(", ")", "x"}

Texts == UNION {[1..n -> Chars] : n \in 0..MaxText}

CleanInit ==
  /\ pc = "clean_once"
  /\ config = <<>>
  /\ text \in {None} \cup {Some(t) : t \in Texts}
  /\ cleaned = None
  /\ recleaned = None
  /\ UiIdle
  /\ SaveIdle
  /\ RunIdle
  /\ LinkIdle
  /\ DetailIdle

\* clean_text(text)
CleanOnce ==
  /\ pc = "clean_once"
  /\ cleaned' = clean_text(text)
  /\ pc' = "clean_twice"
  /\ UNCHANGED <<config, runVars, linkVars, detailVars, uiVars, saveVars, text, recleaned>>

\* clean_text(clean_text(text))
CleanTwice ==
  /\ pc = "clean_twice"
  /\ recleaned' = clean_text(cleaned)
  /\ pc' = "clean_done"
  /\ UNCHANGED <<config, runVars, linkVars, detailVars, uiVars, saveVars, text, cleaned>>

CleanNext ==
  \/ CleanOnce
  \/ CleanTwice

SpecClean == CleanInit /\ [][CleanNext]_vars

\* C14: clean_text is idempotent: cleaning a cleaned text gives the same value.
C14_CleanIdempotent == pc = "clean_done" => recleaned = cleaned

\* ------------------------------------------------------------------ column selection
MaxColumns == 3       \* longest configured output_columns

\* Column names: the fields a record can carry, and a name no record carries.
ColumnNames == {"url", "title", "foo", "confidence_score", "needs_verification",
                "missing"}

\* list(df_stories.columns): every record has url, its fields, and the two
\* classification keys (lines 179, 223, 226-228).
DfColumnLists ==
  { <<"url">> \o f \o <<"confidence_score", "needs_verification">> :
      f \in {<<>>, <<"title">>, <<"foo">>, <<"title", "foo">>} }

SaveConfigs ==
  {<<>>} \cup {[output_columns |-> c] :
                 c \in UNION {[1..n -> ColumnNames] : n \in 0..MaxColumns}}

\* `if name not in cols: cols.append(name)`
AppendIfMissing(cols, name) ==
  IF name \in Range(cols) THEN cols ELSE Append(cols, name)

IsIn(S, c) == c \in S

HasDuplicates(cols) == Cardinality(Range(cols)) # Len(cols)

SaveInit ==
  /\ pc = "save_columns"
  /\ config \in SaveConfigs
  /\ config_before = config
  /\ df_columns \in DfColumnLists
  /\ sheet_columns = <<>>
  /\ UiIdle
  /\ CleanIdle
  /\ RunIdle
  /\ LinkIdle
  /\ DetailIdle

\* SelectColumns without the appends of lines 321-322.
SelectColumnsNoAppend ==
  /\ pc = "save_columns"
  /\ LET output_columns == CfgGet(config, "output_columns", df_columns)
         existing_cols == SelectSeq(output_columns, LAMBDA c : IsIn(Range(df_columns), c))
     IN  IF HasDuplicates(existing_cols)
         THEN pc' = "save_raised" /\ UNCHANGED sheet_columns
         ELSE pc' = "save_done" /\ sheet_columns' = output_columns
  /\ UNCHANGED <<config, runVars, linkVars, detailVars, uiVars, cleanVars,
                 config_before, df_columns>>

\* Lines 318-324: the configured columns (all columns of the frame if none are
\* configured), the two classification columns added to the frame and to the
\* list if missing, the frame cut to the listed columns it has, then
\* reindexed to the list.  Reindexing a frame that has a column label twice
\* raises.  config.get returns the list object held by the configuration
\* when the key is present, so the appends of lines 321-322 are made to the
\* configuration's own list.
SelectColumns ==
  /\ pc = "save_columns"
  /\ LET configured == CfgGet(config, "output_columns", df_columns)
         frame == AppendIfMissing(AppendIfMissing(df_columns, "confidence_score"),
                                  "needs_verification")
         output_columns == AppendIfMissing(AppendIfMissing(configured, "confidence_score"),
                                           "needs_verification")
         existing_cols == SelectSeq(output_columns, LAMBDA c : IsIn(Range(frame), c))
     IN  /\ config' = IF "output_columns" \in DOMAIN config
                       THEN [config EXCEPT !["output_columns"] = output_columns]
                       ELSE config
         /\ IF HasDuplicates(existing_cols)
            THEN pc' = "save_raised" /\ UNCHANGED sheet_columns
            ELSE pc' = "save_done" /\ sheet_columns' = output_columns
  /\ UNCHANGED <<runVars, linkVars, detailVars, uiVars, cleanVars,
                 config_before, df_columns>>

SaveNext == SelectColumns

SpecSave == SaveInit /\ [][SaveNext]_vars

\* C20: the sheet has exactly the configured output_columns in their order,
\* followed by confidence_score and needs_verification when they were not
\* listed; a field of the records that is not listed (foo) is not in the
\* sheet.
C20_ColumnOrder ==
  (pc = "save_done" /\ "output_columns" \in DOMAIN config_before)
    => LET listed == config_before["output_columns"]
           score == IF "confidence_score" \in Range(listed)
                    THEN <<>> ELSE <<"confidence_score">>
           verif == IF "needs_verification" \in Range(listed)
                    THEN <<>> ELSE <<"needs_verification">>
       IN  /\ sheet_columns = listed \o score \o verif
           /\ "foo" \notin Range(listed) => "foo" \notin Range(sheet_columns)
           /\ listed = <<"url", "title", "confidence_score">>
                => sheet_columns = <<"url", "title", "confidence_score",
                                     "needs_verification">>

\* C20 witness: output_columns = [url, title, confidence_score], records with
\* an unrequested field foo: the sheet has url, title, confidence_score and
\* the appended needs_verification, without foo.
C20_Witness ==
  /\ pc = "save_done"
  /\ "output_columns" \in DOMAIN config_before
  /\ config_before["output_columns"] = <<"url", "title", "confidence_score">>
  /\ "foo" \in Range(df_columns)
  /\ sheet_columns = <<"url", "title", "confidence_score", "needs_verification">>

\* ------------------------------------------------------------------ further properties of run_scraper_main
\* C21: if the browser session cannot be created at run start, the run ends at
\* once with one failure completion report: while no session exists the worker
\* is either still at the creation or has returned, no discovery and no item
\* scrape was performed, and nothing (no second creation either) follows the
\* return.
C21_FatalSessionError ==
  /\ [](sessions = 0 =>
          /\ pc \in {"setup_driver", "done"}
          /\ driver = 0 /\ wait = 0
          /\ story_urls = <<>> /\ scrapeLog = <<>> /\ passes = 0
          /\ pc = "done" => finishCalls = <<[success |-> FALSE, payload |-> FALSE]>>)
  /\ [][pc # "done"]_vars

\* C21 witness: the run has returned without any session, with its failure report.
C21_Witness ==
  /\ pc = "done"
  /\ sessions = 0
  /\ finishCalls = <<[success |-> FALSE, payload |-> FALSE]>>

\* C22: no step of the output preparation changes the configuration passed
\* in: once the columns are selected, config equals what it was before.
C22_ConfigUnchanged ==
  pc \in {"save_done", "save_raised"} => config = config_before

\* ------------------------------------------------------------------ further properties of get_story_links
\* get_story_links with every enabled step eventually taken: each wait of the
\* function has a timeout and each sleep is finite.
SpecLinksFair == SpecLinks /\ WF_vars(LinksNext)

\* An iteration of the page loop begins.
IterationStarts == pc = "links_loop_head" /\ pc' = "links_fingerprint"

LinksEnded == pc \in {"links_returned", "links_raised"}

\* C23: with max_pages_to_scrape = N the page loop makes at most N iterations
\* (the k-th iteration begins with current_page = k <= N, after k-1
\* enumerations) and at most N-1 pagination clicks, clicks only in an
\* iteration before the N-th, and the function always ends.
C23_PageLoopBounded ==
  /\ [](/\ clicks <= max_pages_or_clicks - 1
        /\ enumerations <= max_pages_or_clicks
        /\ pc \in {"links_fingerprint", "links_enumerate", "links_paginate"}
             => current_page <= max_pages_or_clicks)
  /\ [][/\ IterationStarts => /\ current_page <= max_pages_or_clicks
                              /\ enumerations = current_page - 1
        /\ clicks' # clicks => /\ clicks' = clicks + 1
                               /\ current_page < max_pages_or_clicks]_vars
  /\ <>LinksEnded

\* C23 witness: with N = MaxPages the function returned after N iterations
\* and N-1 clicks.
C23_Witness ==
  /\ pc = "links_returned"
  /\ max_pages_or_clicks = MaxPages
  /\ enumerations = MaxPages
  /\ clicks = MaxPages - 1
  /\ current_page = MaxPages + 1

\* Between two passes, or after the last one.
BetweenPasses ==
  \/ pc \in {"pass_head", "after_loop", "serialize"}
  \/ pc \in {"finally", "done"} /\ story_urls # <<>> /\ ~raised

\* The URLs of the work list the current pass has still to scrape.
Remaining == {urls_to_scrape[i] : i \in idx..Len(urls_to_scrape)}

\* C25: after every pass the URLs of the accumulated records and the work list
\* are disjoint and together are exactly the discovered URLs; within a pass
\* every discovered URL has a record, is on the failed list, or is still to
\* be scraped; no two records have the same URL.
C25_RetryPartition ==
  /\ Len(all_stories_data) = Cardinality(RecordUrls)
  /\ BetweenPasses
       => /\ RecordUrls \cap Range(urls_to_scrape) = {}
          /\ RecordUrls \cup Range(urls_to_scrape) = Range(story_urls)
  /\ pc \in {"check_session", "scrape", "end_pass"}
       => /\ RecordUrls \cap Range(failed_urls_this_pass) = {}
          /\ RecordUrls \cap Remaining = {}
          /\ RecordUrls \cup Range(failed_urls_this_pass) \cup Remaining
               = Range(story_urls)

\* C25 witness: after the second pass over three discovered URLs, two have a
\* record and the third is the work list.
C25_Witness ==
  /\ pc = "pass_head"
  /\ attempt = 2
  /\ Len(story_urls) = 3
  /\ Len(all_stories_data) = 2
  /\ Len(urls_to_scrape) = 1
  /\ Len(scrapeLog) = 5

\* C26: at every point of a run at most one browser session is alive, and it
\* is the one `driver` is bound to; a replacement is created only after
\* driver.quit() was attempted on the old session, and every call of
\* scrape_story_details is made with the newest session and the wait object
\* built on it.
C26_SingleLiveSession ==
  /\ [](/\ Cardinality(live) <= 1
        /\ live \subseteq {driver}
        /\ pc = "scrape" => (driver = sessions /\ wait = driver /\ live = {driver}))
  /\ [][(sessions' # sessions /\ sessions >= 1)
          => /\ driver \in quitAttempted'
             /\ driver \notin live'
             /\ driver' = sessions'
             /\ wait' = sessions']_vars

\* C26 witness: the second URL of a pass is about to be scraped with the
\* replacement session, the first session having been quit.
C26_Witness ==
  /\ pc = "scrape"
  /\ sessions = 2
  /\ live = {2}
  /\ quitAttempted = {1}
  /\ driver = 2 /\ wait = 2
  /\ Len(scrapeLog) >= 1

\* No pagination strategy applies: the tag is none or unrecognized, or the
\* next/load-more selector is empty (lines 132, 146, 157).
NoStrategy ==
  \/ config["pagination_type"] \notin {"click_button_by_page_number", "click_load_more"}
  \/ config["next_page_button_selector"] = ""

\* C24: when no pagination strategy applies, no control is ever clicked, the
\* container is enumerated at most once, and once the page loop was entered
\* the function returns after exactly one iteration with the accepted links
\* of that page, whatever max_pages_to_scrape is.
C24_NoStrategyOnePage ==
  NoStrategy
    => /\ clicks = 0
       /\ enumerations <= 1
       /\ pc # "links_raised" \/ pagesSeen = <<>>
       /\ (pc = "links_returned" /\ pagesSeen # <<>>)
            => /\ enumerations = 1
               /\ Len(pagesSeen) = 1
               /\ current_page = 2
               /\ Range(returned) = AcceptedUrls(pagesSeen[1])

\* C24 witness: an unrecognized strategy tag with three pages allowed; the
\* two links of the first page are returned after one enumeration.
C24_Witness ==
  /\ pc = "links_returned"
  /\ config["pagination_type"] = "infinite_scroll"
  /\ config["next_page_button_selector"] # ""
  /\ max_pages_or_clicks = 3
  /\ enumerations = 1
  /\ clicks = 0
  /\ Cardinality(Range(returned)) = 2

\* ------------------------------------------------------------------ further properties of the worker threads
\* The runs whose worker thread has not returned yet.
ActiveWorkers == {r \in 1..runs : wpc[r] # "exited"}

\* C27: at most one worker thread is active at any time, and a run can be
\* started (is_running false, start button enabled) only when the worker of
\* every earlier run has returned.
C27_SingleActiveWorker ==
  /\ Cardinality(ActiveWorkers) <= 1
  /\ (~is_running /\ button_enabled) => ActiveWorkers = {}

====
